---- MODULE Spec2Model ----
(***************************************************************************)
(* Model of the Morton-code linear BVH builder of cuBQL                    *)
(* (src/cuBQL/impl/morton.h).                                              *)
(*                                                                         *)
(* The threads of computeUnsortedKeysAndPrimIDs and of createNodes are     *)
(* interleaved at the granularity of their atomics.                        *)
(*                                                                         *)
(* A 64-bit word is the set of the positions of its 1 bits, so that no     *)
(* value is cut to the width of the checker's integers.                    *)
(***************************************************************************)
EXTENDS Integers, Sequences, FiniteSets, TLC

(* ------------------------------ bounds -------------------------------- *)
\* largest number of input boxes of a build
MaxN == 4
\* buildConfig.makeLeafThreshold ranges over -1..MaxLeafThreshold
MaxLeafThreshold == 2
\* buildConfig.maxAllowedLeafSize is 1 or MaxAllowedLeafSize
MaxAllowedLeafSize == 2
\* threads per block (1024 in the source): 1 or MaxBlockDim
MaxBlockDim == 2
\* cells given to the encoder: 0, 2^21-1 and 2^i for i in 0..MaxCellBit
MaxCellBit == 7
\* longest key array given to findSplit on its own
MaxKeys == 4

VARIABLES
  pc,                       \* position of the host in build()
  prims, buildConfig,       \* the inputs: boxes[0..numPrims), buildConfig
  blockDim,                 \* threads per block of the wide kernels (1024)
  d_buildState,             \* BuildState on the device
  h_buildState,             \* pinned host mirror of BuildState
  numValidPrims,            \* host local of build()
  d_primKeys_unsorted, d_primIDs_unsorted,
  d_primKeys_sorted, d_primIDs_inMortonOrder,
  nodes,                    \* TempNode buffer
  numNodesDone, numNodesAlloced,
  kp,                       \* threads of computeUnsortedKeysAndPrimIDs
  cn,                       \* threads of the running createNodes launch
  l_allocOffset,            \* per block: __shared__ l_allocOffset
  bvh,                      \* the output
  numLaunches,              \* createNodes launches so far
  visited,                  \* <<nodeID, launch, tid>> of every createNodes
                            \* thread that has read its node
  mem,                      \* per buffer: times allocated, times freed;
                            \* buffers an enqueued operation used while
                            \* not allocated
  oobAccess,                \* accesses outside a buffer so far
  mortonCell, mortonCode,   \* encoder: input cell; its lanes and key
  splitArgs, splitResult,   \* findSplit on its own: keys, begin, end; its
                            \* return value and split
  call,                     \* concurrent calls of build(): per host thread
                            \* its position, device counters and locals
  h_buildStatePtr,          \* the static pointer h_buildState of build()
  pinned,                   \* the MallocHost'ed mirrors, by who made them
  firstRun                  \* output and buildConfig of an earlier build
                            \* of the same boxes, if there was one

vars == <<pc, prims, buildConfig, blockDim, d_buildState, h_buildState,
          numValidPrims, d_primKeys_unsorted, d_primIDs_unsorted,
          d_primKeys_sorted, d_primIDs_inMortonOrder, nodes, numNodesDone,
          numNodesAlloced, kp, cn, l_allocOffset, bvh, numLaunches, visited,
          mem, oobAccess, mortonCell, mortonCode, splitArgs, splitResult,
          call, h_buildStatePtr, pinned, firstRun>>

buildVars == <<prims, buildConfig, blockDim, d_buildState, h_buildState,
          numValidPrims, d_primKeys_unsorted, d_primIDs_unsorted,
          d_primKeys_sorted, d_primIDs_inMortonOrder, nodes, numNodesDone,
          numNodesAlloced, kp, cn, l_allocOffset, bvh, numLaunches, visited,
          mem, oobAccess>>

\* what no step of a build touches
auxVars == <<mortonCell, mortonCode, splitArgs, splitResult, call,
            h_buildStatePtr, pinned, firstRun>>

(* Five specifications share the variables:                               *)
(*   Spec        one call of build();                                      *)
(*   SpecTwice   build() called again on the same boxes when it returned;  *)
(*   SpecMorton  the encoder applied to triples of cell values;            *)
(*   SpecSplit   findSplit applied to ranges of non-decreasing key arrays; *)
(*   SpecShared  two host threads in build() at once, on the one static    *)
(*               host mirror.                                              *)

(* ------------------------- 64-bit words ------------------------------- *)
Bits == 0..63

Pow2(n) == 2^n

\* the word of a non-negative integer below 2^31
ToBits(n) == {i \in 0..30 : (n \div Pow2(i)) % 2 = 1}

\* a 64-bit literal from its eight bytes, most significant first
Word(bytes) ==
  {8 * (8 - k) + j : k \in 1..8, j \in 0..7} \cap
  {b \in Bits : (bytes[8 - (b \div 8)] \div Pow2(b % 8)) % 2 = 1}

\* x << k on uint64_t: bits shifted past bit 63 are lost
Shl(x, k) == {b + k : b \in x} \cap Bits

\* the highest bit of a non-zero word that is at or below bit k
RECURSIVE HighestFrom(_, _)
HighestFrom(x, k) == IF k \in x THEN k ELSE HighestFrom(x, k - 1)

Highest(x) == HighestFrom(x, 63)

Xor(a, b) == (a \ b) \cup (b \ a)

\* a < b on uint64_t
Less(a, b) == a /= b /\ Highest(Xor(a, b)) \in b

(* -------------------------- Morton encoder ---------------------------- *)
Mask32 == Word(<<\h00, \h00, \h00, \h00, \h00, \h1f, \h00, \h00>>)
Mask16 == Word(<<\h00, \h00, \h00, \h00, \h00, \h00, \hff, \h00>>)
Mask8 == Word(<<\h00, \hf0, \h00, \h00, \hf0, \h00, \h00, \hf0>>)
Mask4 == Word(<<\h00, \h0c, \h00, \hc0, \h0c, \h00, \hc0, \h0c>>)
Mask2 == Word(<<\h00, \h82, \h04, \h20, \h82, \h04, \h20, \h82>>)

shiftBits(x, maskOfBitstoMove, howMuchToShift) ==
  Shl(x \cap maskOfBitstoMove, howMuchToShift) \cup (x \ maskOfBitstoMove)

bitInterleave21(x) ==
  LET x1 == shiftBits(x, Mask32, 32)
      x2 == shiftBits(x1, Mask16, 16)
      x3 == shiftBits(x2, Mask8, 8)
      x4 == shiftBits(x3, Mask4, 4)
  IN  shiftBits(x4, Mask2, 2)

\* the last statement of computeMortonCode: the three lanes or-ed together
interleave(cell) ==
  Shl(bitInterleave21(ToBits(cell[3])), 2) \cup
  Shl(bitInterleave21(ToBits(cell[2])), 1) \cup
  Shl(bitInterleave21(ToBits(cell[1])), 0)

MaxCell == Pow2(21) - 1

Cells == {0, MaxCell} \cup {Pow2(i) : i \in 0..MaxCellBit}

(* ------------------------------ boxes --------------------------------- *)
\* box_t: empty iff some component of lower exceeds that of upper
empty(box) == \E i \in 1..3 : box.lower[i] > box.upper[i]

center(box) == [i \in 1..3 |-> (box.lower[i] + box.upper[i]) \div 2]

PointBox(p) == [lower |-> p, upper |-> p]

EmptyBox == [lower |-> <<1, 1, 1>>, upper |-> <<0, 0, 0>>]

\* the centers of the non-empty input boxes (zero-extent boxes on a lattice
\* small enough for the float arithmetic of the quantizer to be exact)
CenterList == <<<<2, 1, 1>>, <<0, 0, 0>>, <<3, 1, 0>>, <<1, 0, 1>>,
                <<0, 1, 1>>, <<3, 0, 1>>, <<1, 1, 0>>, <<2, 0, 0>>>>

\* input box i is empty, a point of its own, or the point of box 0
BoxChoice(i, c) ==
  IF c = "empty" THEN EmptyBox
  ELSE IF c = "own" THEN PointBox(CenterList[i + 1])
  ELSE PointBox(CenterList[1])

\* what a read of prims[] past numPrims may return
GarbageBoxes == {EmptyBox, PointBox(<<3, 3, 3>>)}

numPrims == Cardinality(DOMAIN prims)

divRoundUp(a, b) == (a + b - 1) \div b

Min2(a, b) == IF a < b THEN a ELSE b

Max2(a, b) == IF a > b THEN a ELSE b

(* --------------------------- AtomicBox -------------------------------- *)
\* AtomicBox::clear(): the empty box, which any point grows
ClearedBox == [isEmpty |-> TRUE, lower |-> <<0, 0, 0>>, upper |-> <<0, 0, 0>>]

atomic_grow(abox, P) ==
  IF abox.isEmpty
  THEN [isEmpty |-> FALSE, lower |-> P, upper |-> P]
  ELSE [isEmpty |-> FALSE,
        lower |-> [i \in 1..3 |-> Min2(abox.lower[i], P[i])],
        upper |-> [i \in 1..3 |-> Max2(abox.upper[i], P[i])]]

RECURSIVE GrowAll(_, _)
GrowAll(abox, points) ==
  IF points = {} THEN abox
  ELSE LET P == CHOOSE q \in points : TRUE
       IN  GrowAll(atomic_grow(abox, P), points \ {P})

(* ------------------------- the quantizer ------------------------------ *)
\* (P - quantizeBias) * quantizeScale, then vec3i(P), on one axis.
\* quantizeScale[i] is (1<<21) / max(size, 1e-20); it is kept as the size,
\* 0 standing for the 1e-20 floor, under which any positive offset
\* saturates the conversion to int.
quantize(p, bias, size) ==
  IF size > 0 THEN ((p - bias) * Pow2(21)) \div size
  ELSE IF p - bias > 0 THEN Pow2(30) ELSE 0

\* quantizedCell without the min against (1<<21)-1
quantizedCellUnclamped(P, quantizeBias, quantizeScale) ==
  [i \in 1..3 |-> quantize(P[i], quantizeBias[i], quantizeScale[i])]

\* vec3i mortonCell = min(vec3i(P),vec3i((1<<21)-1))
quantizedCell(P, quantizeBias, quantizeScale) ==
  [i \in 1..3 |->
     Min2(quantize(P[i], quantizeBias[i], quantizeScale[i]), MaxCell)]

computeMortonCode(P, quantizeBias, quantizeScale) ==
  interleave(quantizedCell(P, quantizeBias, quantizeScale))

(* ------------------------------ build --------------------------------- *)
\* buildConfig is read once, into the local makeLeafThreshold, which no
\* statement uses before the first createNodes launch: the model draws the
\* buildConfig of the call where the expansion begins, and holds
\* UnreadConfig until then; a second build of the same boxes is called with
\* the buildConfig of the first
BuildConfigs == [makeLeafThreshold : (-1)..MaxLeafThreshold,
                 maxAllowedLeafSize : {1, MaxAllowedLeafSize}]

UnreadConfig == [makeLeafThreshold |-> 0, maxAllowedLeafSize |-> 0]

\* makeLeafThreshold without the clamp to maxAllowedLeafSize
makeLeafThresholdUnclamped ==
  IF buildConfig.makeLeafThreshold > 0
  THEN buildConfig.makeLeafThreshold
  ELSE 1

makeLeafThreshold ==
  IF buildConfig.makeLeafThreshold > 0
  THEN Min2(buildConfig.makeLeafThreshold, buildConfig.maxAllowedLeafSize)
  ELSE 1

InitBuildState ==
  [numNodesAlloced |-> 0, numValidPrims |-> 0, a_centBounds |-> ClearedBox,
   centBounds |-> ClearedBox, quantizeBias |-> <<0, 0, 0>>,
   quantizeScale |-> <<0, 0, 0>>]

EmptyBvh == [nodes |-> <<>>, primIDs |-> <<>>, numPrims |-> 0, numNodes |-> 0]

\* the buffers build() allocates
UnsortedBuffers == {"d_primKeys_unsorted", "d_primIDs_unsorted"}

SortBuffers == {"d_tempMem", "d_primKeys_sorted", "d_primIDs_inMortonOrder"}

Buffers ==
  {"d_buildState", "nodes", "bvh.nodes"} \cup UnsortedBuffers \cup SortBuffers

NoMem == [allocs |-> [b \in Buffers |-> 0],
          frees |-> [b \in Buffers |-> 0],
          misused |-> {}]

\* Enqueue with the frees put on the stream before the operations
EnqueueFreesFirst(m, allocated, used, freed) ==
  LET allocs == [b \in Buffers |->
                   m.allocs[b] + (IF b \in allocated THEN 1 ELSE 0)]
      frees == [b \in Buffers |->
                  m.frees[b] + (IF b \in freed THEN 1 ELSE 0)]
  IN  [allocs |-> allocs,
       frees |-> frees,
       misused |-> m.misused \cup {b \in used : allocs[b] <= frees[b]}]

\* a stretch of build(): its _ALLOCs, then the kernels, copies and sorts it
\* puts on the stream, then its _FREEs
Enqueue(m, allocated, used, freed) ==
  LET allocs == [b \in Buffers |->
                   m.allocs[b] + (IF b \in allocated THEN 1 ELSE 0)]
  IN  [allocs |-> allocs,
       frees |-> [b \in Buffers |->
                    m.frees[b] + (IF b \in freed THEN 1 ELSE 0)],
       misused |-> m.misused \cup {b \in used : allocs[b] <= m.frees[b]}]

InitBuildVars ==
  /\ d_buildState = InitBuildState
  /\ h_buildState = [numNodesAlloced |-> 0, numValidPrims |-> 0]
  /\ numValidPrims = 0
  /\ d_primKeys_unsorted = <<>>
  /\ d_primIDs_unsorted = <<>>
  /\ d_primKeys_sorted = <<>>
  /\ d_primIDs_inMortonOrder = <<>>
  /\ nodes = <<>>
  /\ numNodesDone = 0
  /\ numNodesAlloced = 0
  /\ kp = <<>>
  /\ cn = <<>>
  /\ l_allocOffset = <<>>
  /\ bvh = EmptyBvh
  /\ numLaunches = 0
  /\ visited = {}
  /\ mem = NoMem
  /\ oobAccess = {}

NoCode == [lane |-> <<{}, {}, {}>>, key |-> {}]

NoRun == [run |-> FALSE, bvh |-> EmptyBvh, buildConfig |-> UnreadConfig]

NoArgs == [keys |-> <<>>, begin |-> 0, end |-> 0]

NoSplit == [found |-> FALSE, split |-> -1]

\* no concurrent calls: one call of build(), with the mirror as h_buildState
NoCalls ==
  /\ call = <<>>
  /\ h_buildStatePtr = "null"
  /\ pinned = <<>>

\* build() is entered with boxes[0..numPrims) and a buildConfig
Init ==
  /\ pc = "clearBuildState"
  /\ \E n \in 0..MaxN :
       \E c \in [0..(n - 1) -> {"empty", "own", "shared"}] :
         prims = [i \in 0..(n - 1) |-> BoxChoice(i, c[i])]
  /\ buildConfig = UnreadConfig
  /\ blockDim \in {1, MaxBlockDim}
  /\ InitBuildVars
  /\ mortonCell = <<0, 0, 0>>
  /\ mortonCode = NoCode
  /\ splitArgs = NoArgs
  /\ splitResult = NoSplit
  /\ NoCalls
  /\ firstRun = NoRun

\* clearBuildState<<<32,1>>>
ClearBuildState ==
  /\ pc = "clearBuildState"
  /\ d_buildState' = [d_buildState EXCEPT !.a_centBounds = ClearedBox,
                                          !.numValidPrims = numPrims,
                                          !.numNodesAlloced = 0]
  /\ pc' = "fillBuildState"
  /\ mem' = Enqueue(mem, {"d_buildState"},
                  {"d_buildState"},
                  {})
  /\ UNCHANGED <<prims, buildConfig, blockDim, h_buildState, numValidPrims,
                 d_primKeys_unsorted, d_primIDs_unsorted, d_primKeys_sorted,
                 d_primIDs_inMortonOrder, nodes, numNodesDone, numNodesAlloced,
                 kp, cn, l_allocOffset, bvh, numLaunches, visited, oobAccess,
                 auxVars>>

\* fillBuildState<<<divRoundUp(numPrims,1024),1024>>>: every thread of the
\* grid reads prims[tid], also the threads with tid >= numPrims of the last
\* block; the grows commute, so the kernel is one step
FillBuildState ==
  /\ pc = "fillBuildState"
  /\ LET gridThreads == divRoundUp(numPrims, blockDim) * blockDim
         past == numPrims..(gridThreads - 1)
     IN  \E read \in [past -> GarbageBoxes] :
           LET prim(tid) == IF tid < numPrims THEN prims[tid] ELSE read[tid]
               grown == {center(prim(tid)) :
                           tid \in {t \in 0..(gridThreads - 1) : ~empty(prim(t))}}
           IN  /\ d_buildState' =
                    [d_buildState EXCEPT
                       !.a_centBounds = GrowAll(d_buildState.a_centBounds, grown)]
               /\ oobAccess' = oobAccess \cup {<<"prims", t>> : t \in past}
  /\ pc' = "finishBuildState"
  /\ mem' = Enqueue(mem, {},
                  {"d_buildState"},
                  {})
  /\ UNCHANGED <<prims, buildConfig, blockDim, h_buildState, numValidPrims,
                 d_primKeys_unsorted, d_primIDs_unsorted, d_primKeys_sorted,
                 d_primIDs_inMortonOrder, nodes, numNodesDone, numNodesAlloced,
                 kp, cn, l_allocOffset, bvh, numLaunches, visited, auxVars>>

\* finishBuildState<<<32,1>>>
FinishBuildState ==
  /\ pc = "finishBuildState"
  /\ LET centBounds == d_buildState.a_centBounds
     IN  d_buildState' =
           [d_buildState EXCEPT
              !.centBounds = centBounds,
              !.quantizeBias = centBounds.lower,
              !.quantizeScale =
                 [i \in 1..3 |->
                    IF centBounds.isEmpty THEN 0
                    ELSE centBounds.upper[i] - centBounds.lower[i]]]
  /\ pc' = "downloadState"
  /\ mem' = Enqueue(mem, {},
                  {"d_buildState"},
                  {})
  /\ UNCHANGED <<prims, buildConfig, blockDim, h_buildState, numValidPrims,
                 d_primKeys_unsorted, d_primIDs_unsorted, d_primKeys_sorted,
                 d_primIDs_inMortonOrder, nodes, numNodesDone, numNodesAlloced,
                 kp, cn, l_allocOffset, bvh, numLaunches, visited, oobAccess,
                 auxVars>>

\* MemcpyAsync, EventRecord, EventSynchronize, then the host reads the mirror
Download == [numNodesAlloced |-> d_buildState.numNodesAlloced,
             numValidPrims |-> d_buildState.numValidPrims]

DownloadState ==
  /\ pc = "downloadState"
  /\ h_buildState' = Download
  /\ numValidPrims' = Download.numValidPrims
  /\ pc' = "launchKeys"
  /\ mem' = Enqueue(mem, {},
                  {"d_buildState"},
                  {})
  /\ UNCHANGED <<prims, buildConfig, blockDim, d_buildState,
                 d_primKeys_unsorted, d_primIDs_unsorted, d_primKeys_sorted,
                 d_primIDs_inMortonOrder, nodes, numNodesDone, numNodesAlloced,
                 kp, cn, l_allocOffset, bvh, numLaunches, visited, oobAccess,
                 auxVars>>

(* ------------------- computeUnsortedKeysAndPrimIDs -------------------- *)
\* allocates the unsorted arrays (numPrims entries, none written yet) and
\* launches divRoundUp(numValidPrims,1024) blocks; a thread with
\* tid >= numPrims returns at once
LaunchKeys ==
  /\ pc = "launchKeys"
  /\ d_primKeys_unsorted' = <<>>
  /\ d_primIDs_unsorted' = <<>>
  /\ LET gridThreads == divRoundUp(numValidPrims, blockDim) * blockDim
     IN  kp' = [tid \in 0..(Min2(gridThreads, numPrims) - 1) |->
                  [state |-> "run", primID |-> tid]]
  /\ pc' = "computeKeys"
  /\ mem' = Enqueue(mem, {"d_primKeys_unsorted", "d_primIDs_unsorted"},
                  {"d_primKeys_unsorted", "d_primIDs_unsorted", "d_buildState"},
                  {})
  /\ UNCHANGED <<prims, buildConfig, blockDim, d_buildState, h_buildState,
                 numValidPrims, d_primKeys_sorted, d_primIDs_inMortonOrder,
                 nodes, numNodesDone, numNodesAlloced, cn, l_allocOffset,
                 bvh, numLaunches, visited, oobAccess, auxVars>>

\* a[i] = v on an array kept as the function of its written entries
Store(a, i, v) == [j \in DOMAIN a \cup {i} |-> IF j = i THEN v ELSE a[j]]

\* atomicAdd(&buildState->numValidPrims,-1)-1
StolenPrimID == d_buildState.numValidPrims - 1

\* one thread, up to and including its next atomicAdd: with a non-empty prim
\* in hand it writes its slot and ends; with an empty one it decrements the
\* counter and either returns or goes on with the prim at the new count
KeyThread(tid) ==
  /\ pc = "computeKeys"
  /\ tid \in DOMAIN kp
  /\ kp[tid].state = "run"
  /\ LET primID == kp[tid].primID
         prim == prims[primID]
     IN  IF ~empty(prim)
         THEN /\ d_primIDs_unsorted' = Store(d_primIDs_unsorted, tid, primID)
              /\ d_primKeys_unsorted' =
                   Store(d_primKeys_unsorted, tid,
                         computeMortonCode(center(prim),
                                           d_buildState.quantizeBias,
                                           d_buildState.quantizeScale))
              /\ kp' = [kp EXCEPT ![tid].state = "wrote"]
              /\ UNCHANGED d_buildState
         ELSE /\ d_buildState' =
                   [d_buildState EXCEPT !.numValidPrims = StolenPrimID]
              /\ kp' = [kp EXCEPT ![tid] =
                          IF tid >= StolenPrimID
                          THEN [state |-> "returned", primID |-> StolenPrimID]
                          ELSE [state |-> "run", primID |-> StolenPrimID]]
              /\ UNCHANGED <<d_primIDs_unsorted, d_primKeys_unsorted>>
  /\ UNCHANGED <<pc, prims, buildConfig, blockDim, h_buildState,
                 numValidPrims, d_primKeys_sorted, d_primIDs_inMortonOrder,
                 nodes, numNodesDone, numNodesAlloced, cn, l_allocOffset,
                 bvh, numLaunches, mem, visited, oobAccess, auxVars>>

(* ------------------------------- sort --------------------------------- *)
\* what a pair of entries no thread wrote may hold
GarbagePairs == {[key |-> {}, primID |-> 0],
                 [key |-> Bits, primID |-> numPrims]}

\* cub::DeviceRadixSort::SortPairs on the first n pairs: ascending keys,
\* pairs of equal keys in their input order
RECURSIVE InsertPair(_, _)
InsertPair(sorted, pair) ==
  IF sorted = <<>> \/ ~Less(pair.key, sorted[Len(sorted)].key)
  THEN Append(sorted, pair)
  ELSE Append(InsertPair(SubSeq(sorted, 1, Len(sorted) - 1), pair),
              sorted[Len(sorted)])

RECURSIVE SortedPairs(_, _)
SortedPairs(pairsIn, n) ==
  IF n = 0 THEN <<>>
  ELSE InsertPair(SortedPairs(pairsIn, n - 1), pairsIn[n - 1])

SortPairs(pairsIn, n) ==
  LET sorted == SortedPairs(pairsIn, n)
  IN  [keys |-> [r \in 0..(n - 1) |-> sorted[r + 1].key],
       values |-> [r \in 0..(n - 1) |-> sorted[r + 1].primID]]

\* steps 2.2 to 2.5 of build(): the sort of numValidPrims pairs, stream-
\* ordered after the key kernel, whose threads are gone by then; the
\* unsorted arrays are then freed
Sort ==
  /\ pc = "computeKeys"
  /\ \A tid \in DOMAIN kp : kp[tid].state /= "run"
  /\ LET slots == 0..(numValidPrims - 1)
         unwritten == slots \ DOMAIN d_primIDs_unsorted
     IN  \E g \in [unwritten -> GarbagePairs] :
           LET pairsIn == [i \in slots |->
                             IF i \in DOMAIN g THEN g[i]
                             ELSE [key |-> d_primKeys_unsorted[i],
                                   primID |-> d_primIDs_unsorted[i]]]
               sorted == SortPairs(pairsIn, numValidPrims)
           IN  /\ d_primKeys_sorted' = sorted.keys
               /\ d_primIDs_inMortonOrder' = sorted.values
  /\ d_primKeys_unsorted' = <<>>
  /\ d_primIDs_unsorted' = <<>>
  /\ kp' = <<>>
  /\ pc' = "initNodes"
  /\ mem' = Enqueue(mem, SortBuffers,
                  SortBuffers \cup UnsortedBuffers,
                  UnsortedBuffers \cup {"d_tempMem"})
  /\ UNCHANGED <<prims, buildConfig, blockDim, d_buildState, h_buildState,
                 numValidPrims, nodes, numNodesDone, numNodesAlloced, cn,
                 l_allocOffset, bvh, numLaunches, visited, oobAccess, auxVars>>

(* ----------------------------- TempNode ------------------------------- *)
\* the two words of a TempNode; tag tells which member of the union was
\* written last and why ("raw": none yet)
Open(begin, end) == [tag |-> "open", w0 |-> begin, w1 |-> end]

\* finished, as a leaf (how = "leaf") or with two children ("internal")
Finished(offset, count, how) == [tag |-> how, w0 |-> offset, w1 |-> count]

RawNode == [tag |-> "raw", w0 |-> 0, w1 |-> 0]

ZeroNode == [tag |-> "bits", w0 |-> 0, w1 |-> 0]

upperBoundOnNumNodesToBeCreated == 2 * numValidPrims

\* the indices of a write that lie outside the TempNode buffer
OutOfNodes(indices) ==
  {<<"nodes", i>> : i \in {j \in indices : j >= upperBoundOnNumNodesToBeCreated}}

\* step 3.1 of build(): nodes is allocated and initNodes<<<32,1>>> writes
\* nodes[0] and nodes[1]; a write past the buffer either lands behind it or
\* faults the kernel
InitNodes ==
  /\ pc = "initNodes"
  /\ \/ /\ nodes' = [i \in 0..(upperBoundOnNumNodesToBeCreated - 1) \cup {0, 1} |->
                       IF i = 0 THEN Open(0, numValidPrims)
                       ELSE IF i = 1 THEN ZeroNode ELSE RawNode]
        /\ buildConfig' \in IF firstRun.run THEN {firstRun.buildConfig}
                             ELSE BuildConfigs
        /\ d_buildState' = [d_buildState EXCEPT !.numNodesAlloced = 1]
        /\ numNodesAlloced' = 1
        /\ numNodesDone' = 0
        /\ pc' = "bfs"
     \/ /\ OutOfNodes({0, 1}) /= {}
        /\ pc' = "fault"
        /\ UNCHANGED <<nodes, d_buildState, numNodesAlloced, numNodesDone,
                       buildConfig>>
  /\ oobAccess' = oobAccess \cup OutOfNodes({0, 1})
  /\ mem' = Enqueue(mem, {"nodes"},
                  {"d_buildState", "nodes"},
                  {})
  /\ UNCHANGED <<prims, blockDim, h_buildState, numValidPrims,
                 d_primKeys_unsorted, d_primIDs_unsorted, d_primKeys_sorted,
                 d_primIDs_inMortonOrder, kp, cn, l_allocOffset, bvh,
                 numLaunches, visited, auxVars>>

(* ----------------------------- findSplit ------------------------------ *)
\* __clzll of a non-zero word
clzll(x) == 63 - Highest(x)

RECURSIVE SplitSearch(_, _, _, _)
SplitSearch(keys, searchKey, begin, end) ==
  IF end > begin
  THEN LET mid == (begin + end) \div 2
       IN  IF Less(keys[mid], searchKey)
           THEN SplitSearch(keys, searchKey, mid + 1, end)
           ELSE SplitSearch(keys, searchKey, begin, mid)
  ELSE begin

\* findSplit with a searchKey that lacks the first bit the two ends differ
\* in (shift by 64-numMatchingBits)
findSplitBelowBit(keys, begin, end) ==
  LET firstKey == keys[begin]
      lastKey == keys[end - 1]
  IN  IF firstKey = lastKey
      THEN [found |-> FALSE, split |-> -1]
      ELSE LET numMatchingBits == clzll(Xor(firstKey, lastKey))
               searchKey == lastKey \cap Shl(Bits, 64 - numMatchingBits)
           IN  [found |-> TRUE,
                split |-> SplitSearch(keys, searchKey, begin, end)]

\* [found, split]: the return value and the out-parameter (left at the
\* caller's -1 when nothing is found)
findSplit(keys, begin, end) ==
  LET firstKey == keys[begin]
      lastKey == keys[end - 1]
  IN  IF firstKey = lastKey
      THEN [found |-> FALSE, split |-> -1]
      ELSE LET numMatchingBits == clzll(Xor(firstKey, lastKey))
               searchKey == lastKey \cap Shl(Bits, 63 - numMatchingBits)
           IN  [found |-> TRUE,
                split |-> SplitSearch(keys, searchKey, begin, end)]

(* ---------------------------- createNodes ----------------------------- *)
blockOf(tid) == tid \div blockDim

\* step 3.2 of build(), loop head and launch:
\* createNodes<<<divRoundUp(numNodesStillToDo,1024),1024>>> on
\* [numNodesDone, numNodesAlloced); cn holds the threads with a valid node
LaunchCreateNodes ==
  /\ pc = "bfs"
  /\ numNodesDone < numNodesAlloced
  /\ LET numNodesStillToDo == numNodesAlloced - numNodesDone
     IN  /\ cn' = [tid \in 0..(numNodesStillToDo - 1) |->
                     [state |-> "start", split |-> -1, childID |-> -1,
                      node |-> RawNode]]
         /\ l_allocOffset' =
              [b \in 0..(divRoundUp(numNodesStillToDo, blockDim) - 1) |->
                 [value |-> 0, reserved |-> FALSE]]
  /\ numLaunches' = numLaunches + 1
  /\ pc' = "createNodes"
  /\ mem' = Enqueue(mem, {},
                  {"d_buildState", "nodes", "d_primKeys_sorted"},
                  {})
  /\ UNCHANGED <<prims, buildConfig, blockDim, d_buildState, h_buildState,
                 numValidPrims, d_primKeys_unsorted, d_primIDs_unsorted,
                 d_primKeys_sorted, d_primIDs_inMortonOrder, nodes,
                 numNodesDone, numNodesAlloced, kp, bvh, visited,
                 oobAccess, auxVars>>

\* Decide with a threshold test that lets one primitive too many through
DecideOffByOne(node, leafThreshold, keys) ==
  LET size == node.w1 - node.w0
  IN  IF size <= leafThreshold + 1
      THEN [leaf |-> TRUE, split |-> -1]
      ELSE LET fs == findSplit(keys, node.w0, node.w1)
           IN  [leaf |-> ~fs.found, split |-> fs.split]

\* what a thread decides for its node: a leaf, or a split
Decide(node, leafThreshold, keys) ==
  LET size == node.w1 - node.w0
  IN  IF size <= leafThreshold
      THEN [leaf |-> TRUE, split |-> -1]
      ELSE LET fs == findSplit(keys, node.w0, node.w1)
           IN  [leaf |-> ~fs.found, split |-> fs.split]

\* CreateNodesDecide with atomicAdd(&l_allocOffset,1): one slot per split
CreateNodesDecideTakesOne(tid) ==
  /\ pc = "createNodes"
  /\ tid \in DOMAIN cn
  /\ cn[tid].state = "start"
  /\ visited' = visited \cup {<<numNodesDone + tid, numLaunches, tid>>}
  /\ LET nodeID == numNodesDone + tid
         node == nodes[nodeID]
         d == Decide(node, makeLeafThreshold, d_primKeys_sorted)
         b == blockOf(tid)
     IN  IF d.leaf
         THEN /\ cn' = [cn EXCEPT ![tid] =
                          [state |-> "decided", split |-> -1, childID |-> -1,
                           node |-> Finished(node.w0, node.w1 - node.w0,
                                             "leaf")]]
              /\ UNCHANGED l_allocOffset
         ELSE /\ cn' = [cn EXCEPT ![tid] =
                          [state |-> "decided", split |-> d.split,
                           childID |-> l_allocOffset[b].value, node |-> node]]
              /\ l_allocOffset' =
                   [l_allocOffset EXCEPT ![b].value = @ + 1]
  /\ UNCHANGED <<pc, prims, buildConfig, blockDim, d_buildState,
                 h_buildState, numValidPrims, d_primKeys_unsorted,
                 d_primIDs_unsorted, d_primKeys_sorted,
                 d_primIDs_inMortonOrder, nodes, numNodesDone,
                 numNodesAlloced, kp, bvh, numLaunches, mem, oobAccess,
                 auxVars>>

\* a thread from the first barrier to the second: it reads its node and
\* either finishes it as a leaf or takes two slots of its block's counter
CreateNodesDecide(tid) ==
  /\ pc = "createNodes"
  /\ tid \in DOMAIN cn
  /\ cn[tid].state = "start"
  /\ visited' = visited \cup {<<numNodesDone + tid, numLaunches, tid>>}
  /\ LET nodeID == numNodesDone + tid
         node == nodes[nodeID]
         d == Decide(node, makeLeafThreshold, d_primKeys_sorted)
         b == blockOf(tid)
     IN  IF d.leaf
         THEN /\ cn' = [cn EXCEPT ![tid] =
                          [state |-> "decided", split |-> -1, childID |-> -1,
                           node |-> Finished(node.w0, node.w1 - node.w0,
                                             "leaf")]]
              /\ UNCHANGED l_allocOffset
         ELSE /\ cn' = [cn EXCEPT ![tid] =
                          [state |-> "decided", split |-> d.split,
                           childID |-> l_allocOffset[b].value, node |-> node]]
              /\ l_allocOffset' =
                   [l_allocOffset EXCEPT ![b].value = @ + 2]
  /\ UNCHANGED <<pc, prims, buildConfig, blockDim, d_buildState,
                 h_buildState, numValidPrims, d_primKeys_unsorted,
                 d_primIDs_unsorted, d_primKeys_sorted,
                 d_primIDs_inMortonOrder, nodes, numNodesDone,
                 numNodesAlloced, kp, bvh, numLaunches, mem, oobAccess,
                 auxVars>>

\* NodeWrites without childID += l_allocOffset: the children go to the
\* block-local indices
NodeWritesLocalChildren(nodeID, t, base) ==
  IF t.childID >= 0
  THEN (t.childID :> Open(t.node.w0, t.split))
         @@ ((t.childID + 1) :> Open(t.split, t.node.w1))
         @@ (nodeID :> Finished(t.childID + base, 0, "internal"))
  ELSE (nodeID :> t.node)

\* NodeWrites with a splitting parent that is not written back
NodeWritesForgetsParent(nodeID, t, base) ==
  IF t.childID >= 0
  THEN LET childID == t.childID + base
       IN  (childID :> Open(t.node.w0, t.split))
             @@ ((childID + 1) :> Open(t.split, t.node.w1))
  ELSE (nodeID :> t.node)

\* NodeWrites with the two children in each other's slot
NodeWritesSwapsChildren(nodeID, t, base) ==
  IF t.childID >= 0
  THEN LET childID == t.childID + base
       IN  (childID :> Open(t.split, t.node.w1))
             @@ ((childID + 1) :> Open(t.node.w0, t.split))
             @@ (nodeID :> Finished(childID, 0, "internal"))
  ELSE (nodeID :> t.node)

\* NodeWrites with a second child that starts one primitive too late
NodeWritesSkipsSplitPrim(nodeID, t, base) ==
  IF t.childID >= 0
  THEN LET childID == t.childID + base
       IN  (childID :> Open(t.node.w0, t.split))
             @@ ((childID + 1) :> Open(t.split + 1, t.node.w1))
             @@ (nodeID :> Finished(childID, 0, "internal"))
  ELSE (nodeID :> t.node)

\* NodeWrites with a parent that records its block-local childID
NodeWritesLocalChildID(nodeID, t, base) ==
  IF t.childID >= 0
  THEN LET childID == t.childID + base
       IN  (childID :> Open(t.node.w0, t.split))
             @@ ((childID + 1) :> Open(t.split, t.node.w1))
             @@ (nodeID :> Finished(t.childID, 0, "internal"))
  ELSE (nodeID :> t.node)

\* the words a thread with its block's base in hand writes: the two
\* children of a split at childID and childID+1, then its own node
NodeWrites(nodeID, t, base) ==
  IF t.childID >= 0
  THEN LET childID == t.childID + base
       IN  (childID :> Open(t.node.w0, t.split))
             @@ ((childID + 1) :> Open(t.split, t.node.w1))
             @@ (nodeID :> Finished(childID, 0, "internal"))
  ELSE (nodeID :> t.node)

RECURSIVE WriteAll(_, _, _)
WriteAll(buf, tids, base) ==
  IF tids = {} THEN buf
  ELSE LET tid == CHOOSE t \in tids : TRUE
           w == NodeWrites(numNodesDone + tid, cn[tid], base)
       IN  WriteAll([i \in DOMAIN buf \cup DOMAIN w |->
                       IF i \in DOMAIN w THEN w[i] ELSE buf[i]],
                    tids \ {tid}, base)

\* a block from the second barrier on: thread 0 does
\* l_allocOffset = atomicAdd(&buildState->numNodesAlloced,l_allocOffset)
\* and, past the third barrier, the threads of the block write (to indices
\* no other thread touches, so the writes of a block are one step)
CreateNodesFinish(b) ==
  /\ pc = "createNodes"
  /\ b \in DOMAIN l_allocOffset
  /\ ~l_allocOffset[b].reserved
  /\ LET tids == {tid \in DOMAIN cn : blockOf(tid) = b}
         base == d_buildState.numNodesAlloced
         written == UNION {DOMAIN NodeWrites(numNodesDone + tid, cn[tid], base) :
                             tid \in tids}
     IN  /\ \A tid \in tids : cn[tid].state = "decided"
         /\ l_allocOffset' =
              [l_allocOffset EXCEPT ![b] = [value |-> base, reserved |-> TRUE]]
         /\ d_buildState' =
              [d_buildState EXCEPT !.numNodesAlloced = @ + l_allocOffset[b].value]
         /\ nodes' = WriteAll(nodes, tids, base)
         /\ oobAccess' = oobAccess \cup OutOfNodes(written)
         /\ cn' = [tid \in DOMAIN cn |->
                     IF tid \in tids THEN [cn[tid] EXCEPT !.state = "done"]
                     ELSE cn[tid]]
  /\ UNCHANGED <<pc, prims, buildConfig, blockDim, h_buildState,
                 numValidPrims, d_primKeys_unsorted, d_primIDs_unsorted,
                 d_primKeys_sorted, d_primIDs_inMortonOrder, numNodesDone,
                 numNodesAlloced, kp, bvh, numLaunches, mem, visited, auxVars>>

\* HostSync without the EventSynchronize: the host reads the mirror while
\* blocks of the launch may still be running
HostSyncNoWait ==
  /\ pc = "createNodes"
  /\ h_buildState' = Download
  /\ numNodesDone' = numNodesAlloced
  /\ numNodesAlloced' = Download.numNodesAlloced
  /\ cn' = <<>>
  /\ l_allocOffset' = <<>>
  /\ pc' = "bfs"
  /\ mem' = Enqueue(mem, {},
                  {"d_buildState"},
                  {})
  /\ UNCHANGED <<prims, buildConfig, blockDim, d_buildState, numValidPrims,
                 d_primKeys_unsorted, d_primIDs_unsorted, d_primKeys_sorted,
                 d_primIDs_inMortonOrder, nodes, kp, bvh, numLaunches, visited,
                 oobAccess, auxVars>>

\* step 3.2 of build(), after the launch: the state is downloaded once the
\* kernel has finished (its threads and shared counters are gone), and the
\* host moves its two counters
HostSync ==
  /\ pc = "createNodes"
  /\ \A b \in DOMAIN l_allocOffset : l_allocOffset[b].reserved
  /\ h_buildState' = Download
  /\ numNodesDone' = numNodesAlloced
  /\ numNodesAlloced' = Download.numNodesAlloced
  /\ cn' = <<>>
  /\ l_allocOffset' = <<>>
  /\ pc' = "bfs"
  /\ mem' = Enqueue(mem, {},
                  {"d_buildState"},
                  {})
  /\ UNCHANGED <<prims, buildConfig, blockDim, d_buildState, numValidPrims,
                 d_primKeys_unsorted, d_primIDs_unsorted, d_primKeys_sorted,
                 d_primIDs_inMortonOrder, nodes, kp, bvh, numLaunches, visited,
                 oobAccess, auxVars>>

(* -------------------------- writeFinalNodes --------------------------- *)
\* step four of build(): the loop has ended; bvh gets the sorted primIDs,
\* numValidPrims, numNodesAlloced and the finished words of every TempNode
WriteFinalNodes ==
  /\ pc = "bfs"
  /\ ~(numNodesDone < numNodesAlloced)
  /\ bvh' = [primIDs |-> d_primIDs_inMortonOrder,
             numPrims |-> numValidPrims,
             numNodes |-> numNodesAlloced,
             nodes |-> [tid \in 0..(numNodesAlloced - 1) |->
                          [offset |-> nodes[tid].w0, count |-> nodes[tid].w1]]]
  /\ pc' = "done"
  /\ mem' = Enqueue(mem, {"bvh.nodes"},
                  {"nodes", "bvh.nodes"},
                  {"d_primKeys_sorted", "nodes", "d_buildState"})
  /\ UNCHANGED <<prims, buildConfig, blockDim, d_buildState, h_buildState,
                 numValidPrims, d_primKeys_unsorted, d_primIDs_unsorted,
                 d_primKeys_sorted, d_primIDs_inMortonOrder, nodes,
                 numNodesDone, numNodesAlloced, kp, cn, l_allocOffset,
                 numLaunches, visited, oobAccess, auxVars>>

Next ==
  \/ ClearBuildState
  \/ FillBuildState
  \/ FinishBuildState
  \/ DownloadState
  \/ LaunchKeys
  \/ \E tid \in 0..(MaxN - 1) : KeyThread(tid)
  \/ Sort
  \/ InitNodes
  \/ LaunchCreateNodes
  \/ \E tid \in 0..(2 * MaxN) : CreateNodesDecide(tid)
  \/ \E b \in 0..(2 * MaxN) : CreateNodesFinish(b)
  \/ HostSync
  \/ WriteFinalNodes

Spec == Init /\ [][Next]_vars

(* --------------------- a second build of the boxes -------------------- *)
\* build() has returned and is called again with the same boxes and the
\* same kernels; what the first call returned is kept in firstRun
Rebuild ==
  /\ pc = "done"
  /\ ~firstRun.run
  /\ firstRun' = [run |-> TRUE, bvh |-> bvh, buildConfig |-> buildConfig]
  /\ pc' = "clearBuildState"
  /\ buildConfig' = UnreadConfig
  /\ d_buildState' = InitBuildState
  /\ h_buildState' = [numNodesAlloced |-> 0, numValidPrims |-> 0]
  /\ numValidPrims' = 0
  /\ d_primKeys_sorted' = <<>>
  /\ d_primIDs_inMortonOrder' = <<>>
  /\ nodes' = <<>>
  /\ numNodesDone' = 0
  /\ numNodesAlloced' = 0
  /\ bvh' = EmptyBvh
  /\ numLaunches' = 0
  /\ visited' = {}
  /\ mem' = NoMem
  /\ oobAccess' = {}
  /\ UNCHANGED <<prims, blockDim, d_primKeys_unsorted, d_primIDs_unsorted,
                 kp, cn, l_allocOffset, mortonCell, mortonCode,
                 splitArgs, splitResult, call, h_buildStatePtr, pinned>>

NextTwice == Next \/ Rebuild

SpecTwice == Init /\ [][NextTwice]_vars

(* ----------------------- the encoder on its own ----------------------- *)
InitMorton ==
  /\ pc = "cell"
  /\ mortonCell \in Cells \X Cells \X Cells
  /\ mortonCode = NoCode
  /\ splitArgs = NoArgs
  /\ splitResult = NoSplit
  /\ NoCalls
  /\ firstRun = NoRun
  /\ prims = <<>>
  /\ buildConfig = UnreadConfig
  /\ blockDim = 1
  /\ InitBuildVars

\* the return statement of computeMortonCode on mortonCell
Encode ==
  /\ pc = "cell"
  /\ mortonCode' = [lane |-> [a \in 1..3 |->
                                bitInterleave21(ToBits(mortonCell[a]))],
                     key |-> interleave(mortonCell)]
  /\ pc' = "code"
  /\ UNCHANGED <<mortonCell, splitArgs, splitResult, call, h_buildStatePtr,
                 pinned, firstRun, buildVars>>

NextMorton == Encode

SpecMorton == InitMorton /\ [][NextMorton]_vars

(* ---------------------- findSplit on its own -------------------------- *)
\* the keys the arrays are made of: both ends of the 64 bits, and words
\* that differ in one low or one high bit only
SplitKeys == {{}, {0}, {1}, {0, 1}, {62}, {63}, Bits \ {0}, Bits}

\* the arrays of n keys in non-decreasing order, as the sort leaves them
SortedKeys(n) ==
  {k \in [0..(n - 1) -> SplitKeys] :
     \A i, j \in 0..(n - 1) : i < j => ~Less(k[j], k[i])}

\* findSplit is entered with a non-empty range [begin, end) of such an array
InitSplit ==
  /\ pc = "args"
  /\ \E n \in 1..MaxKeys : \E k \in SortedKeys(n) :
       \E begin \in 0..(n - 1) : \E end \in (begin + 1)..n :
         splitArgs = [keys |-> k, begin |-> begin, end |-> end]
  /\ splitResult = NoSplit
  /\ NoCalls
  /\ mortonCell = <<0, 0, 0>>
  /\ mortonCode = NoCode
  /\ firstRun = NoRun
  /\ prims = <<>>
  /\ buildConfig = UnreadConfig
  /\ blockDim = 1
  /\ InitBuildVars

\* findSplit(split, keys, begin, end) returns
CallFindSplit ==
  /\ pc = "args"
  /\ splitResult' = findSplit(splitArgs.keys, splitArgs.begin, splitArgs.end)
  /\ pc' = "split"
  /\ UNCHANGED <<mortonCell, mortonCode, splitArgs, call, h_buildStatePtr,
                 pinned, firstRun, buildVars>>

NextSplit == CallFindSplit

SpecSplit == InitSplit /\ [][NextSplit]_vars

(* ------------------ two calls of build() at once ---------------------- *)
\* Two host threads call build(), each on its own boxes and its own stream.
\* A call is kept by what it does with the mirror: the test and MallocHost
\* of the static pointer, a MemcpyAsync into the buffer the pointer names
\* when the copy is enqueued, EventSynchronize, and the read through the
\* pointer. Its kernels are kept by what they leave in its own BuildState:
\* clearBuildState numValidPrims = numPrims, initNodes numNodesAlloced = 1,
\* a createNodes launch two more nodes for every node of the launch that
\* splits (how many do is for the keys to decide; a tree over numPrims
\* primitives has 2*numPrims-1 nodes at most).
Calls == {"a", "b"}

\* what a mirror nobody has copied into yet may hold
UnwrittenMirrors == {[numValidPrims |-> 0, numNodesAlloced |-> 0],
                     [numValidPrims |-> MaxN, numNodesAlloced |-> 2 * MaxN]}

\* build() up to the declaration of h_buildState, lines 358 to 384
CallEntered(n) ==
  [pc |-> "static", numPrims |-> n,
   d_buildState |-> [numValidPrims |-> n, numNodesAlloced |-> 0],
   dst |-> "null", numValidPrims |-> 0, numNodesDone |-> 0,
   numNodesAlloced |-> 0, numLaunches |-> 0, inLoop |-> FALSE]

InitShared ==
  /\ pc = "calls"
  /\ call \in [Calls -> {CallEntered(n) : n \in {1, MaxN}}]
  /\ h_buildStatePtr = "null"
  /\ pinned = <<>>
  /\ splitArgs = NoArgs
  /\ splitResult = NoSplit
  /\ mortonCell = <<0, 0, 0>>
  /\ mortonCode = NoCode
  /\ firstRun = NoRun
  /\ prims = <<>>
  /\ buildConfig = UnreadConfig
  /\ blockDim = 1
  /\ InitBuildVars

SharedFrame ==
  UNCHANGED <<pc, mortonCell, mortonCode, splitArgs, splitResult, firstRun,
              buildVars>>

\* if (!h_buildState)
TestStatic(c) ==
  /\ call[c].pc = "static"
  /\ call' = [call EXCEPT ![c].pc = IF h_buildStatePtr = "null"
                                    THEN "mallocHost" ELSE "memcpy"]
  /\ UNCHANGED <<h_buildStatePtr, pinned>>
  /\ SharedFrame

\* MallocHost((void**)&h_buildState, ...): a new buffer, named after its
\* maker, and the static pointer set to it
MallocHost(c) ==
  /\ call[c].pc = "mallocHost"
  /\ h_buildStatePtr' = c
  /\ pinned' = Store(pinned, c, [written |-> FALSE, numValidPrims |-> 0,
                                 numNodesAlloced |-> 0])
  /\ call' = [call EXCEPT ![c].pc = "memcpy"]
  /\ SharedFrame

\* MemcpyAsync(h_buildState,d_buildState,...,s) and EventRecord: the
\* destination is the value of the pointer now
MemcpyAsync(c) ==
  /\ call[c].pc = "memcpy"
  /\ call' = [call EXCEPT ![c].dst = h_buildStatePtr, ![c].pc = "sync"]
  /\ UNCHANGED <<h_buildStatePtr, pinned>>
  /\ SharedFrame

\* the copy lands and EventSynchronize returns
EventSynchronize(c) ==
  /\ call[c].pc = "sync"
  /\ pinned' = Store(pinned, call[c].dst,
                     [written |-> TRUE,
                      numValidPrims |-> call[c].d_buildState.numValidPrims,
                      numNodesAlloced |->
                        call[c].d_buildState.numNodesAlloced])
  /\ call' = [call EXCEPT ![c].pc = "read"]
  /\ UNCHANGED h_buildStatePtr
  /\ SharedFrame

\* what a read through the static pointer may give
MirrorReads ==
  IF pinned[h_buildStatePtr].written THEN {pinned[h_buildStatePtr]}
  ELSE UnwrittenMirrors

\* line 399, numValidPrims = h_buildState->numValidPrims, and steps 2 and
\* 3.1 of the call, up to the head of the loop; or lines 478 and 479
ReadMirror(c) ==
  /\ call[c].pc = "read"
  /\ \E h \in MirrorReads :
       call' = [call EXCEPT ![c] =
                  IF call[c].inLoop
                  THEN [@ EXCEPT !.numNodesDone = call[c].numNodesAlloced,
                                 !.numNodesAlloced = h.numNodesAlloced,
                                 !.pc = "bfs"]
                  ELSE [@ EXCEPT !.numValidPrims = h.numValidPrims,
                                 !.d_buildState.numNodesAlloced = 1,
                                 !.numNodesAlloced = 1,
                                 !.numNodesDone = 0,
                                 !.inLoop = TRUE,
                                 !.pc = "bfs"]]
  /\ UNCHANGED <<h_buildStatePtr, pinned>>
  /\ SharedFrame

\* the head of the loop with work left: a createNodes launch on
\* [numNodesDone, numNodesAlloced), of which k nodes split
LaunchOf(c) ==
  /\ call[c].pc = "bfs"
  /\ call[c].numNodesDone < call[c].numNodesAlloced
  /\ \E k \in 0..(call[c].numNodesAlloced - call[c].numNodesDone) :
       /\ call[c].d_buildState.numNodesAlloced + 2 * k
            <= 2 * call[c].numPrims - 1
       /\ call' = [call EXCEPT ![c].d_buildState.numNodesAlloced = @ + 2 * k,
                               ![c].numLaunches = @ + 1,
                               ![c].pc = "memcpy"]
  /\ UNCHANGED <<h_buildStatePtr, pinned>>
  /\ SharedFrame

\* the head of the loop with no work left: step four, and build() returns
ReturnOf(c) ==
  /\ call[c].pc = "bfs"
  /\ ~(call[c].numNodesDone < call[c].numNodesAlloced)
  /\ call' = [call EXCEPT ![c].pc = "done"]
  /\ UNCHANGED <<h_buildStatePtr, pinned>>
  /\ SharedFrame

NextShared ==
  \E c \in Calls :
    \/ TestStatic(c)
    \/ MallocHost(c)
    \/ MemcpyAsync(c)
    \/ EventSynchronize(c)
    \/ ReadMirror(c)
    \/ LaunchOf(c)
    \/ ReturnOf(c)

SpecShared == InitShared /\ [][NextShared]_vars


(* ============================ properties ============================== *)
\* build() has returned
Returned == pc = "done"

\* the indices of the input boxes that are not empty
NonEmpty == {i \in DOMAIN prims : ~empty(prims[i])}

\* the entries of bvh.primIDs the output counts as its own
PrimSlots == 0..(bvh.numPrims - 1)

\* the primitive range of node n of the output
Range(n) == bvh.nodes[n].offset..(bvh.nodes[n].offset + bvh.nodes[n].count - 1)

\* the nodes of the output one gets to from node 0, reading a node of
\* count 0 as internal with children at offset and offset+1
RECURSIVE ReachFrom(_)
ReachFrom(S) ==
  LET more == {c \in 0..(bvh.numNodes - 1) :
                 \E n \in S : /\ bvh.nodes[n].count = 0
                              /\ c \in {bvh.nodes[n].offset,
                                        bvh.nodes[n].offset + 1}}
  IN  IF more \subseteq S THEN S ELSE ReachFrom(S \cup more)

Leaves == {n \in ReachFrom({0}) : bvh.nodes[n].count > 0}

RECURSIVE SumCounts(_)
SumCounts(S) ==
  IF S = {} THEN 0
  ELSE LET n == CHOOSE x \in S : TRUE
       IN  bvh.nodes[n].count + SumCounts(S \ {n})

\* the sorted keys of node n's range are one and the same key
AllKeysEqual(n) ==
  \A r \in Range(n) : d_primKeys_sorted[r] = d_primKeys_sorted[bvh.nodes[n].offset]

\* the sorted keys are one and the same key
SortedKeysEqual ==
  \A r \in DOMAIN d_primKeys_sorted : d_primKeys_sorted[r] = d_primKeys_sorted[0]

\* C1: when build() has returned, bvh.numPrims is the number of input
\* boxes that are not empty.
C1_NumPrimsIsNonEmptyCount ==
  Returned => bvh.numPrims = Cardinality(NonEmpty)

\* C2: when build() has returned, the first numPrims entries of bvh.primIDs
\* hold the index of every non-empty input box exactly once and nothing
\* else (no index of an empty box, no index twice, no unwritten value).
C2_PrimIDsAreTheNonEmpty ==
  Returned =>
    /\ \A i \in NonEmpty :
         Cardinality({r \in PrimSlots : bvh.primIDs[r] = i}) = 1
    /\ \A r \in PrimSlots : bvh.primIDs[r] \in NonEmpty

\* C3: the Morton encoding is invertible: no other triple of 21-bit cell
\* values has the key the encoder gave to this one.
C3_EncodingInvertible ==
  pc = "code" =>
    \A cell \in Cells \X Cells \X Cells :
      interleave(cell) = mortonCode.key => cell = mortonCell

\* C4: bitInterleave21 puts bit i of its input at bit 3*i and leaves every
\* other bit zero, so that the key has x's bit i at 3*i, y's at 3*i+1 and
\* z's at 3*i+2.
C4_BitPlacement ==
  pc = "code" =>
    /\ \A a \in 1..3 :
         mortonCode.lane[a] = {3 * i : i \in ToBits(mortonCell[a])}
    /\ mortonCode.key =
         UNION {{3 * i + (a - 1) : i \in ToBits(mortonCell[a])} : a \in 1..3}

\* C5: when the expansion has finished, the ranges of the leaves reachable
\* from node 0 are pairwise disjoint, their union is [0, numPrims) and their
\* counts add up to numPrims.
C5_LeavesPartition ==
  Returned =>
    /\ \A a, b \in Leaves : a /= b => Range(a) \cap Range(b) = {}
    /\ UNION {Range(n) : n \in Leaves} = PrimSlots
    /\ SumCounts(Leaves) = bvh.numPrims

\* a build whose output has two leaves or more
C5_Witness ==
  Returned /\ Cardinality(Leaves) >= 2

\* node n of the output was finished as an internal node, and its children
\* offset and offset+1 lie behind it and inside the node array
IsInternal(n) ==
  /\ nodes[n].tag = "internal"
  /\ n < bvh.nodes[n].offset
  /\ bvh.nodes[n].offset + 1 < bvh.numNodes

\* C6 as stated: in the output of every build, those with no or one
\* non-empty box included, a node with count 0 is an internal node with
\* n < offset and offset+1 < numNodes.
C6_CountZeroIsInternal ==
  Returned =>
    \A n \in 0..(bvh.numNodes - 1) : bvh.nodes[n].count = 0 => IsInternal(n)

\* C6, amended: a node with count 0 is such an internal node, or it is
\* node 0 of an output of no primitives and one node, the empty leaf.
C6_CountZeroIsInternalOrEmptyRoot ==
  Returned =>
    \A n \in 0..(bvh.numNodes - 1) :
      bvh.nodes[n].count = 0 =>
        \/ IsInternal(n)
        \/ /\ n = 0
           /\ bvh.numPrims = 0
           /\ bvh.numNodes = 1
           /\ nodes[0] = Finished(0, 0, "leaf")

\* a build of one box or more whose output has a node of count 0
C6_Witness ==
  /\ Returned
  /\ numPrims >= 1
  /\ \E n \in 0..(bvh.numNodes - 1) : bvh.nodes[n].count = 0

\* C7: a leaf of the output has at most makeLeafThreshold primitives (so at
\* most maxAllowedLeafSize), unless the keys of its range are all equal.
C7_LeafSizeBound ==
  Returned =>
    \A n \in 0..(bvh.numNodes - 1) :
      bvh.nodes[n].count > 0 =>
        \/ AllKeysEqual(n)
        \/ /\ bvh.nodes[n].count <= makeLeafThreshold
           /\ bvh.nodes[n].count <= buildConfig.maxAllowedLeafSize

\* a leaf of two primitives or more whose keys differ
C7_Witness ==
  /\ Returned
  /\ \E n \in 0..(bvh.numNodes - 1) :
       bvh.nodes[n].count >= 2 /\ ~AllKeysEqual(n)

\* C8: a second build of the same boxes with the same configuration
\* returns what the first returned: the same numPrims, numNodes, primIDs
\* and node records, however the threads were scheduled.
C8_SecondBuildIsTheSame ==
  (Returned /\ firstRun.run /\ buildConfig = firstRun.buildConfig)
    => bvh = firstRun.bvh

\* C9: with one box or more, all of them empty, build() returns numPrims 0
\* and numNodes 1, node 0 being a leaf of count 0.
C9_AllEmpty ==
  (Returned /\ numPrims >= 1 /\ NonEmpty = {}) =>
    /\ bvh.numPrims = 0
    /\ bvh.numNodes = 1
    /\ bvh.nodes[0].count = 0

\* C10: when the sorted keys of the V >= 1 non-empty boxes are all equal,
\* createNodes is launched exactly once and the output is the one leaf
\* {offset 0, count V}, whatever the leaf threshold.
C10_EqualKeysOneLeaf ==
  (Returned /\ Cardinality(NonEmpty) >= 1 /\ SortedKeysEqual) =>
    /\ numLaunches = 1
    /\ bvh.numNodes = 1
    /\ bvh.nodes[0] = [offset |-> 0, count |-> Cardinality(NonEmpty)]

\* the key the key kernel computes for input box i
PrimKey(i) ==
  computeMortonCode(center(prims[i]), d_buildState.quantizeBias,
                    d_buildState.quantizeScale)

\* the keys of the non-empty boxes are pairwise distinct
DistinctKeys ==
  \A i, j \in NonEmpty : i /= j => PrimKey(i) /= PrimKey(j)

\* C11: with V >= 1 non-empty boxes the output has at most 2V-1 nodes; with
\* effective leaf threshold 1 and pairwise distinct keys it has exactly 2V-1
\* nodes and every leaf has count 1, and for V = 2 node 0 is internal with
\* children 1 and 2, the first holding the primitive of the smaller key.
C11_DistinctKeysFullTree ==
  (Returned /\ Cardinality(NonEmpty) >= 1) =>
    LET V == Cardinality(NonEmpty)
    IN  /\ bvh.numNodes <= 2 * V - 1
        /\ (makeLeafThreshold = 1 /\ DistinctKeys) =>
             /\ bvh.numNodes = 2 * V - 1
             /\ \A n \in 0..(bvh.numNodes - 1) :
                  bvh.nodes[n].count > 0 => bvh.nodes[n].count = 1
             /\ V = 2 =>
                  /\ bvh.nodes[0] = [offset |-> 1, count |-> 0]
                  /\ nodes[0].tag = "internal"
                  /\ Less(PrimKey(bvh.primIDs[bvh.nodes[1].offset]),
                          PrimKey(bvh.primIDs[bvh.nodes[2].offset]))

\* the thread has decided to split its node
Splits(tid) == cn[tid].childID >= 0

\* C12: createNodes works with the threshold min(makeLeafThreshold,
\* maxAllowedLeafSize) when makeLeafThreshold > 0 and with 1 otherwise: a
\* thread makes a leaf of a range no larger than that, and splits a larger
\* range whose first and last keys differ (with threshold 1, every range of
\* two or more such keys).
C12_EffectiveThreshold ==
  pc = "createNodes" =>
    \A tid \in DOMAIN cn :
      cn[tid].state = "decided" =>
        LET node == nodes[numNodesDone + tid]
            size == node.w1 - node.w0
            threshold == IF buildConfig.makeLeafThreshold > 0
                         THEN Min2(buildConfig.makeLeafThreshold,
                                   buildConfig.maxAllowedLeafSize)
                         ELSE 1
        IN  /\ size <= threshold => ~Splits(tid)
            /\ (/\ size > threshold
                /\ d_primKeys_sorted[node.w0] /= d_primKeys_sorted[node.w1 - 1])
                 => Splits(tid)

\* a thread splits a range that the requested threshold would have kept
\* whole and the clamped one does not
C12_Witness ==
  /\ pc = "createNodes"
  /\ buildConfig.makeLeafThreshold > buildConfig.maxAllowedLeafSize
  /\ \E tid \in DOMAIN cn :
       /\ cn[tid].state = "decided"
       /\ Splits(tid)
       /\ nodes[numNodesDone + tid].w1 - nodes[numNodesDone + tid].w0
            <= buildConfig.makeLeafThreshold

\* the host has left the while loop of step 3.2
LoopExited ==
  \/ pc = "bfs" /\ ~(numNodesDone < numNodesAlloced)
  \/ Returned

\* C13: the loop of build() over the createNodes launches ends for every
\* input, numNodesDone growing with every iteration until it is
\* numNodesAlloced, and when it has ended at most 2V nodes are allocated, V
\* being the number of non-empty boxes (V >= 0). The formula is the bound
\* at the exit.
C13_AtMostTwoVNodes ==
  LoopExited => numNodesAlloced <= 2 * Cardinality(NonEmpty)

\* the leaves of the output: the nodes with a count
IsLeaf(n) == n \in 0..(bvh.numNodes - 1) /\ bvh.nodes[n].count > 0

\* no sorted key of slot q is below the sorted key of slot r
KeyOrdered(r, q) == ~Less(d_primKeys_sorted[q], d_primKeys_sorted[r])

\* the slots of the leaves below node n, from left to right: those of the
\* child at offset before those of the child at offset+1
RECURSIVE SlotsInOrder(_)
SlotsInOrder(n) ==
  IF nodes[n].tag = "internal"
  THEN SlotsInOrder(bvh.nodes[n].offset) \o SlotsInOrder(bvh.nodes[n].offset + 1)
  ELSE [k \in 1..bvh.nodes[n].count |-> bvh.nodes[n].offset + k - 1]

\* C14 as stated: with the leaves listed by increasing node index, the keys
\* of a leaf's range are non-decreasing and no key of a leaf is above a key
\* of the next leaf of the listing.
C14_LeavesByIndexInKeyOrder ==
  Returned =>
    /\ \A a \in 0..(bvh.numNodes - 1) :
         IsLeaf(a) => \A r, q \in Range(a) : r < q => KeyOrdered(r, q)
    /\ \A a, b \in 0..(bvh.numNodes - 1) :
         (/\ IsLeaf(a) /\ IsLeaf(b) /\ a < b
          /\ \A c \in (a + 1)..(b - 1) : ~IsLeaf(c))
           => \A r \in Range(a), q \in Range(b) : KeyOrdered(r, q)

\* C14, amended: with the leaves listed from left to right in the tree
\* (below an internal node, the leaves of child offset before those of
\* child offset+1), the keys of a leaf's range are non-decreasing and no key
\* of a leaf is above a key of a later leaf.
C14_LeavesLeftToRightInKeyOrder ==
  Returned =>
    LET slots == SlotsInOrder(0)
    IN  \A i, j \in 1..Len(slots) : i < j => KeyOrdered(slots[i], slots[j])

\* an output whose leaves are in key order from left to right and not by
\* node index
C14_Witness ==
  /\ Returned
  /\ \E a, b \in 0..(bvh.numNodes - 1) :
       /\ IsLeaf(a) /\ IsLeaf(b) /\ a < b
       /\ \E r \in Range(a), q \in Range(b) : ~KeyOrdered(r, q)

\* every thread of computeUnsortedKeysAndPrimIDs has ended
KeyKernelDone ==
  pc = "computeKeys" /\ \A tid \in DOMAIN kp : kp[tid].state /= "run"

\* C15: when computeUnsortedKeysAndPrimIDs has completed, whatever the order
\* of the threads' atomic decrements, the device counter numValidPrims is V,
\* the number of non-empty boxes, and the first V entries of primIDs and
\* mortonCodes are written, hold the index of every non-empty box exactly
\* once, and pair every index with the key of its box.
C15_KeysCompacted ==
  KeyKernelDone =>
    LET V == Cardinality(NonEmpty)
    IN  /\ d_buildState.numValidPrims = V
        /\ 0..(V - 1) \subseteq DOMAIN d_primIDs_unsorted
        /\ 0..(V - 1) \subseteq DOMAIN d_primKeys_unsorted
        /\ \A r \in 0..(V - 1) :
             /\ d_primIDs_unsorted[r] \in NonEmpty
             /\ d_primKeys_unsorted[r] = PrimKey(d_primIDs_unsorted[r])
        /\ \A i \in NonEmpty :
             Cardinality({r \in 0..(V - 1) : d_primIDs_unsorted[r] = i}) = 1

\* findSplit has returned
SplitReturned == pc = "split"

\* the first key of a plane: the bits of lastKey from the highest bit in
\* which firstKey and lastKey differ upwards, zeroes below
PlaneKey(firstKey, lastKey) ==
  {b \in lastKey : b >= Highest(Xor(firstKey, lastKey))}

\* C16: on a non-decreasing key array and a range [lo, hi) whose first and
\* last key differ, findSplit returns true with a split m, lo < m < hi, that
\* is the first index of the range whose key is not below the search key,
\* and every key of [lo, m) is below every key of [m, hi); it returns false
\* exactly when the first and the last key of the range are equal.
C16_FindSplit ==
  SplitReturned =>
    LET keys == splitArgs.keys
        lo == splitArgs.begin
        hi == splitArgs.end
        m == splitResult.split
    IN  /\ splitResult.found = (keys[lo] /= keys[hi - 1])
        /\ splitResult.found =>
             /\ lo < m /\ m < hi
             /\ ~Less(keys[m], PlaneKey(keys[lo], keys[hi - 1]))
             /\ \A i \in lo..(m - 1) :
                  Less(keys[i], PlaneKey(keys[lo], keys[hi - 1]))
             /\ \A i \in lo..(m - 1) : \A j \in m..(hi - 1) :
                  Less(keys[i], keys[j])

\* a split of a range of three keys or more, not at index 0, that is not
\* where the bisection looks first
C16_Witness ==
  /\ SplitReturned
  /\ splitResult.found
  /\ splitArgs.begin > 0
  /\ splitArgs.end - splitArgs.begin >= 3
  /\ splitResult.split /= (splitArgs.begin + splitArgs.end) \div 2

\* the createNodes threads that have read node n, as <<launch, tid>>
VisitsOf(n) == {<<v[2], v[3]>> : v \in {u \in visited : u[1] = n}}

\* C17: when the loop of step 3.2 has ended, every node index below
\* numNodesAlloced holds a finished node (a leaf or an internal node, none
\* still open) and was read by exactly one createNodes thread of exactly one
\* launch; no thread read an index at or above numNodesAlloced.
C17_AllFinishedOnce ==
  LoopExited =>
    /\ \A n \in 0..(numNodesAlloced - 1) :
         /\ n \in DOMAIN nodes
         /\ nodes[n].tag \in {"leaf", "internal"}
         /\ Cardinality(VisitsOf(n)) = 1
    /\ \A v \in visited : v[1] < numNodesAlloced

\* the loop has ended after three launches or more, with a launch of two
\* threads or more among them
C17_Witness ==
  /\ LoopExited
  /\ numLaunches >= 3
  /\ \E v \in visited : v[3] >= 1

\* the threads of the running launch that split their node and whose block
\* has added its count to the global counter
Parents ==
  {tid \in DOMAIN cn :
     cn[tid].state = "done" /\ cn[tid].childID >= 0}

\* the two node indices thread tid of Parents has reserved:
\* childID += l_allocOffset, then childID+0 and childID+1
ChildPair(tid) ==
  LET childID == cn[tid].childID + l_allocOffset[blockOf(tid)].value
  IN  {childID, childID + 1}

\* every block of the running launch has done its global atomicAdd
LaunchEnded ==
  pc = "createNodes" /\ \A b \in DOMAIN l_allocOffset : l_allocOffset[b].reserved

\* the internal nodes that name n as a child
ParentsOf(n) ==
  {p \in DOMAIN nodes :
     nodes[p].tag = "internal" /\ n \in {nodes[p].w0, nodes[p].w0 + 1}}

\* C18: in a createNodes launch on [begin, end), whatever the order of the
\* atomicAdds, the child pairs reserved by distinct parents are disjoint and
\* lie at or above end; when the launch has ended the global counter is end
\* plus twice the number of parents that split; and when the loop has ended
\* every index of [1, numNodesAlloced) is the child of exactly one parent.
C18_ChildSlots ==
  /\ pc = "createNodes" =>
       /\ \A s, t \in Parents : s /= t => ChildPair(s) \cap ChildPair(t) = {}
       /\ \A t \in Parents : \A c \in ChildPair(t) : c >= numNodesAlloced
  /\ LaunchEnded =>
       d_buildState.numNodesAlloced = numNodesAlloced + 2 * Cardinality(Parents)
  /\ LoopExited =>
       \A n \in 1..(numNodesAlloced - 1) : Cardinality(ParentsOf(n)) = 1

\* a launch has ended in which two parents of different blocks split, the
\* higher block having done its global atomicAdd first
C18_Witness ==
  /\ LaunchEnded
  /\ \E s, t \in Parents :
       /\ blockOf(s) < blockOf(t)
       /\ l_allocOffset[blockOf(t)].value < l_allocOffset[blockOf(s)].value

\* fillBuildState has completed
FillDone == pc = "finishBuildState"

\* C19: when fillBuildState has completed, the centroid bounds are the tight
\* box of the centers of the non-empty boxes among prims[0..N), and no
\* element outside prims[0..N) was read or has contributed, also when N is
\* not a multiple of the block size.
C19_CentBoundsTight ==
  FillDone =>
    /\ d_buildState.a_centBounds =
         GrowAll(ClearedBox, {center(prims[i]) : i \in NonEmpty})
    /\ \A a \in oobAccess : a[1] /= "prims"

\* C20: no write of initNodes or of a createNodes launch to the TempNode
\* buffer is at an index at or above the buffer's capacity, 2*numValidPrims,
\* whatever the number of non-empty boxes, zero and one included.
C20_NodeWritesInBuffer ==
  \A a \in oobAccess : a[1] /= "nodes"

\* C21: at every point of the expansion, every open TempNode {begin, end},
\* the root written by initNodes and the children written by createNodes,
\* has 0 <= begin < end <= V, V the number of non-empty boxes.
C21_OpenRangesInBounds ==
  \A n \in DOMAIN nodes :
    nodes[n].tag = "open" =>
      /\ 0 <= nodes[n].w0
      /\ nodes[n].w0 < nodes[n].w1
      /\ nodes[n].w1 <= Cardinality(NonEmpty)

\* the host has read numValidPrims from the mirror (line 399) and has not
\* launched the key kernel yet
ValidPrimsRead == pc = "launchKeys"

\* the host has read numNodesAlloced from the mirror (line 479) and stands
\* at the head of the loop
NodesAllocedRead == pc = "bfs" /\ numLaunches >= 1

\* C22: each time the host reads numValidPrims or numNodesAlloced from the
\* mirror, the mirror holds the device state as the preceding kernel left it
\* with all its threads finished: after finishBuildState the bounds are
\* converted; after a createNodes launch every node of the launch is
\* finished and every child it reserved is written. So the next launch gets
\* [begin, end) = [device counter at the previous launch, device counter
\* now): all nodes below begin have been read by a thread, those of
\* [begin, end) are open, and end is the device counter.
C22_HostReadsCompletedState ==
  /\ ValidPrimsRead =>
       /\ h_buildState = Download
       /\ numValidPrims = d_buildState.numValidPrims
       /\ d_buildState.centBounds = d_buildState.a_centBounds
  /\ NodesAllocedRead =>
       /\ h_buildState = Download
       /\ numNodesAlloced = d_buildState.numNodesAlloced
       /\ {v[1] : v \in visited} = 0..(numNodesDone - 1)
       /\ \A n \in 0..(numNodesDone - 1) :
            nodes[n].tag \in {"leaf", "internal"}
       /\ \A n \in numNodesDone..(numNodesAlloced - 1) :
            n \in DOMAIN nodes /\ nodes[n].tag = "open"
  /\ pc = "createNodes" =>
       /\ DOMAIN cn = 0..(numNodesAlloced - numNodesDone - 1)
       /\ (\A b \in DOMAIN l_allocOffset : ~l_allocOffset[b].reserved) =>
            d_buildState.numNodesAlloced = numNodesAlloced

\* the host has read the counter after the second launch or a later one,
\* and the launch has added nodes, so that another launch follows
C22_Witness ==
  /\ NodesAllocedRead
  /\ numLaunches >= 2
  /\ numNodesDone < numNodesAlloced

\* the buffers that live for the duration of a build only
TempBuffers == Buffers \ {"d_primIDs_inMortonOrder", "bvh.nodes"}

\* C23: in a build that returns, every temporary buffer (build state,
\* unsorted keys and primIDs, sort scratch, sorted keys, temp nodes) is
\* allocated once and freed once; nothing put on the stream uses a buffer
\* that is not allocated or already freed; the unsorted keys and primIDs are
\* freed only when the sort is on the stream; and the sorted primIDs and the
\* final nodes are allocated once, never freed, and are what bvh holds.
C23_BufferLifecycle ==
  /\ mem.misused = {}
  /\ \A b \in Buffers : mem.frees[b] <= mem.allocs[b] /\ mem.allocs[b] <= 1
  /\ \A b \in UnsortedBuffers :
       mem.frees[b] > 0 => mem.allocs["d_tempMem"] = 1
  /\ \A b \in Buffers \ TempBuffers : mem.frees[b] = 0
  /\ Returned =>
       /\ \A b \in TempBuffers : mem.allocs[b] = 1 /\ mem.frees[b] = 1
       /\ \A b \in Buffers \ TempBuffers : mem.allocs[b] = 1
       /\ bvh.primIDs = d_primIDs_inMortonOrder

\* a build that ran two createNodes launches or more on the sorted keys
\* and the temp nodes has returned
C23_Witness ==
  /\ Returned
  /\ numLaunches >= 2
  /\ mem.frees["d_primKeys_sorted"] = 1
  /\ mem.frees["nodes"] = 1

\* point P lies inside the centroid bounds finishBuildState has stored
InCentBounds(P) ==
  /\ ~d_buildState.centBounds.isEmpty
  /\ \A i \in 1..3 : /\ d_buildState.centBounds.lower[i] <= P[i]
                     /\ P[i] <= d_buildState.centBounds.upper[i]

\* the key kernel is running on the bias and scale of finishBuildState
KeysRunning == pc = "computeKeys"

\* C24: for every non-empty box whose center lies inside the centroid
\* bounds, each of the three cell values computeMortonCode hands to
\* bitInterleave21 is an integer from 0 to 2^21 - 1.
C24_CellsIn21Bits ==
  KeysRunning =>
    \A p \in NonEmpty :
      InCentBounds(center(prims[p])) =>
        \A i \in 1..3 :
          LET cell == quantizedCell(center(prims[p]), d_buildState.quantizeBias,
                                    d_buildState.quantizeScale)
          IN  0 <= cell[i] /\ cell[i] <= Pow2(21) - 1

\* a box whose center is on the upper face of bounds that have an extent:
\* its offset times the scale is 2^21, one above the largest cell
C24_Witness ==
  /\ KeysRunning
  /\ \E p \in NonEmpty : \E i \in 1..3 :
       /\ InCentBounds(center(prims[p]))
       /\ d_buildState.quantizeScale[i] > 0
       /\ quantize(center(prims[p])[i], d_buildState.quantizeBias[i],
                   d_buildState.quantizeScale[i]) = Pow2(21)

\* the reads and writes of the key kernel: a running thread holds the index
\* of the element of prims it reads next, and writes slot tid of both arrays
KeyKernelInBounds ==
  /\ \A tid \in DOMAIN kp :
       /\ tid \in 0..(numPrims - 1)
       /\ kp[tid].state = "run" => kp[tid].primID \in 0..(numPrims - 1)
  /\ DOMAIN d_primIDs_unsorted \subseteq 0..(numPrims - 1)
  /\ DOMAIN d_primKeys_unsorted \subseteq 0..(numPrims - 1)

\* C25: no kernel of the build reads prims at an index outside [0, N) or
\* writes primIDs or mortonCodes at an index outside [0, N): not a thread of
\* fillBuildState, launched in whole blocks, and not a thread of
\* computeUnsortedKeysAndPrimIDs with an index it took from the counter.
C25_PrimsAccessInBounds ==
  /\ \A a \in oobAccess : a[1] /= "prims"
  /\ pc = "computeKeys" => KeyKernelInBounds

\* node n of the TempNode buffer holds what it held before the step
NodeKept(n) == n \in DOMAIN nodes' /\ nodes'[n] = nodes[n]

\* the indices the step has written
NodesWritten ==
  {n \in DOMAIN nodes' : n \notin DOMAIN nodes \/ nodes'[n] /= nodes[n]}

\* what C26 says of one step of a createNodes launch on
\* [numNodesDone, numNodesAlloced)
CreateNodesFrame ==
  /\ \A n \in DOMAIN nodes :
       (n < numNodesDone \/ nodes[n].tag \in {"leaf", "internal"})
         => NodeKept(n)
  /\ \A n \in NodesWritten :
       \/ n \in numNodesDone..(numNodesAlloced - 1)
       \/ n \in d_buildState.numNodesAlloced..
                  (d_buildState'.numNodesAlloced - 1)

\* C26: a createNodes launch on [begin, end) leaves every node below begin
\* as it was, so that a finished node is never modified by a later launch,
\* and writes no index but those of [begin, end) and the child indices
\* the launch has reserved.
C26_CreateNodesFrame ==
  [][pc = "createNodes" => CreateNodesFrame]_vars

\* a second or later launch is running, on a range that starts behind
\* nodes that are finished, and a block of it has written
C26_Witness ==
  /\ pc = "createNodes"
  /\ numLaunches >= 2
  /\ \E n \in 0..(numNodesDone - 1) : nodes[n].tag \in {"leaf", "internal"}
  /\ \E b \in DOMAIN l_allocOffset :
       l_allocOffset[b].reserved /\ l_allocOffset[b].value > numNodesAlloced

\* call c has read numValidPrims from the mirror
HasReadValidPrims(c) == call[c].inLoop

\* call c has read numNodesAlloced from the mirror and stands at the head
\* of its loop
HasReadNodesAlloced(c) == call[c].pc = "bfs" /\ call[c].numLaunches >= 1

\* C27: of two calls of build() that run at once on two host threads and
\* two streams, each reads from the host mirror what its own kernels have
\* produced: its numValidPrims is the count its clearBuildState has set,
\* and the numNodesAlloced it reads after a launch is the counter of its
\* own BuildState.
C27_CallsReadTheirOwnState ==
  \A c \in DOMAIN call :
    /\ HasReadValidPrims(c) =>
         call[c].numValidPrims = call[c].numPrims
    /\ HasReadNodesAlloced(c) =>
         call[c].numNodesAlloced = call[c].d_buildState.numNodesAlloced

====
